---- MODULE Spec2Model ----
(***************************************************************************)
(* Model of the surface classes of pyoptools.raytrace.surface:             *)
(*   IdealSurface (idealsurface.pyx) and OpticalStop (aperture module).    *)
(*                                                                         *)
(* Numbers.  A C double is held as a pair <<n, d>>: the rational n/d in    *)
(* lowest terms with d > 0, or the not-a-number value <<0, 0>>.  The       *)
(* arithmetic is exact; IEEE rounding is not modelled.                     *)
(*                                                                         *)
(* Directions.  Vector3d.normalize() divides a vector by its Euclidean     *)
(* length, which is irrational in general.  A normalized vector is held as *)
(* the primitive integer vector of its direction (the unit vector is that  *)
(* vector divided by its length), so two representatives are equal exactly *)
(* when the unit vectors are.  Every expression of the modelled code that  *)
(* reads a direction (origin + (-z1/dz)*dir, dir*f/|dir.z|) has the same   *)
(* value for the unit vector and for its representative.                   *)
(***************************************************************************)
EXTENDS Integers, Sequences, FiniteSets, TLC

\* ------------------------------------------------------------------ bounds
MaxCoord == 1
MaxF == 2
RDen == 2
MaxDepth == 2

\* ------------------------------------------------------- double arithmetic
\* Operands are taken by value: {e : x \in {a}} evaluates a once and e with
\* x standing for that value, whatever expression a is.
Abs(i) == IF i < 0 THEN -i ELSE i

RECURSIVE GCD(_, _)
GCD(a, b) == CHOOSE r \in {IF y = 0 THEN x ELSE GCD(y, x % y) : x \in {a}, y \in {b}} : TRUE

NaN == <<0, 0>>
isnan(x) == x[2] = 0

Reduce(n, d) ==
    LET g == GCD(Abs(n), Abs(d))
        s == IF d < 0 THEN -1 ELSE 1
    IN  IF d = 0 THEN NaN ELSE <<s * (n \div g), s * (d \div g)>>

D(i) == <<i, 1>>
Zero == D(0)
One == D(1)

DAdd(a, b) ==
    CHOOSE r \in {IF isnan(x) \/ isnan(y) THEN NaN
                  ELSE Reduce(x[1] * y[2] + y[1] * x[2], x[2] * y[2]) :
                        x \in {a}, y \in {b}} : TRUE
DNeg(a) == CHOOSE r \in {IF isnan(x) THEN NaN ELSE <<-x[1], x[2]>> : x \in {a}} : TRUE
DSub(a, b) == DAdd(a, DNeg(b))
DMul(a, b) ==
    CHOOSE r \in {IF isnan(x) \/ isnan(y) THEN NaN
                  ELSE Reduce(x[1] * y[1], x[2] * y[2]) : x \in {a}, y \in {b}} : TRUE
\* x / 0 is only reached with the guards of the code removed; it is not a number here
DDiv(a, b) ==
    CHOOSE r \in {IF isnan(x) \/ isnan(y) \/ y[1] = 0 THEN NaN
                  ELSE Reduce(x[1] * y[2], x[2] * y[1]) : x \in {a}, y \in {b}} : TRUE
fabs(a) == CHOOSE r \in {IF isnan(x) THEN NaN ELSE <<Abs(x[1]), x[2]>> : x \in {a}} : TRUE
\* comparisons with a not-a-number operand are false
DLt(a, b) == \E x \in {a}, y \in {b} : ~isnan(x) /\ ~isnan(y) /\ x[1] * y[2] < y[1] * x[2]
DLe(a, b) == \E x \in {a}, y \in {b} : ~isnan(x) /\ ~isnan(y) /\ x[1] * y[2] <= y[1] * x[2]
DEq(a, b) == \E x \in {a}, y \in {b} : ~isnan(x) /\ ~isnan(y) /\ x = y
Sign(a) == IF a[1] > 0 THEN 1 ELSE IF a[1] < 0 THEN -1 ELSE 0

\* ---------------------------------------------------------------- Vector3d
Vec(x, y, z) == <<x, y, z>>
VecI(x, y, z) == <<D(x), D(y), D(z)>>
VAdd(a, b) ==
    CHOOSE r \in {<<DAdd(x[1], y[1]), DAdd(x[2], y[2]), DAdd(x[3], y[3])>> :
                    x \in {a}, y \in {b}} : TRUE
VSub(a, b) ==
    CHOOSE r \in {<<DSub(x[1], y[1]), DSub(x[2], y[2]), DSub(x[3], y[3])>> :
                    x \in {a}, y \in {b}} : TRUE
VNeg(a) == CHOOSE r \in {<<DNeg(x[1]), DNeg(x[2]), DNeg(x[3])>> : x \in {a}} : TRUE
VScale(a, s) ==
    CHOOSE r \in {<<DMul(x[1], y), DMul(x[2], y), DMul(x[3], y)>> :
                    x \in {a}, y \in {s}} : TRUE
VNaN == <<NaN, NaN, NaN>>
VHasNaN(a) == \E x \in {a} : isnan(x[1]) \/ isnan(x[2]) \/ isnan(x[3])
VZero == VecI(0, 0, 0)
VDot(a, b) ==
    CHOOSE r \in {DAdd(DAdd(DMul(x[1], y[1]), DMul(x[2], y[2])), DMul(x[3], y[3])) :
                    x \in {a}, y \in {b}} : TRUE
VCross(a, b) ==
    CHOOSE r \in {<<DSub(DMul(x[2], y[3]), DMul(x[3], y[2])),
                    DSub(DMul(x[3], y[1]), DMul(x[1], y[3])),
                    DSub(DMul(x[1], y[2]), DMul(x[2], y[1]))>> :
                    x \in {a}, y \in {b}} : TRUE

LCM(a, b) == (a * b) \div GCD(a, b)

\* Vector3d.normalize(): v / |v|, held as the primitive integer vector along v.
\* The zero vector has no direction and is left as it is; a NaN vector stays NaN.
normalize(v) ==
    CHOOSE r \in
        {IF VHasNaN(x) THEN VNaN
         ELSE LET L == LCM(LCM(x[1][2], x[2][2]), x[3][2])
                  n == [i \in 1..3 |-> x[i][1] * (L \div x[i][2])]
                  g == GCD(GCD(Abs(n[1]), Abs(n[2])), Abs(n[3]))
              IN  IF g = 0 THEN VZero
                  ELSE <<D(n[1] \div g), D(n[2] \div g), D(n[3] \div g)>> :
            x \in {v}} : TRUE

assign_nan_to_vector3d == VNaN
assign_doubles_to_vector3d(X, Y, Z) == <<X, Y, Z>>

\* ------------------------------------------------------------------- Shape
\* The aperture boundary is an external collaborator: a "point inside region"
\* predicate.  A Rectangular shape of half-size h centred on the local origin
\* stands for it; a comparison with NaN is false, so a NaN point is outside.
Rectangular(h) == [none |-> FALSE, half |-> D(h)]
None == [none |-> TRUE, half |-> Zero]
hit_cy(shape, p) ==
    /\ DLe(fabs(p[1]), shape.half)
    /\ DLe(fabs(p[2]), shape.half)

\* --------------------------------------------------------------------- Ray
NoRef == 0
SourceRef == 1

\* Ray.fast_init(origin, direction, intensity, wavelength, n, label, draw_color,
\*               parent, pop, orig_surf, order, parent_cnt), the new object at ref
fast_init(ref, origin, direction, intensity, wavelength, n, label, draw_color, parent, pop, orig_surf, order, parent_cnt) ==
    [ref |-> ref, origin |-> origin, direction |-> direction,
     intensity |-> intensity, wavelength |-> wavelength, n |-> n,
     label |-> label, draw_color |-> draw_color, parent |-> parent,
     pop |-> pop, orig_surf |-> orig_surf, order |-> order,
     parent_cnt |-> parent_cnt]

Coords == (-MaxCoord)..MaxCoord
Origins == {VecI(x, y, z) : x \in Coords, y \in 0..1, z \in Coords}
Directions == {normalize(VecI(x, y, z)) : x \in Coords, y \in 0..1, z \in Coords}
                  \ {VZero}
Intensities == {D(1), D(3)}
Wavelength0 == <<29, 50>>
NoSurf == 0

\* the rays a source generator hands to the surface: generation 0, no parent
SourceRays ==
    {fast_init(SourceRef, o, dv, i, Wavelength0, One, "", "", NoRef, Zero, NoSurf, 0, 0) :
        o \in Origins, dv \in Directions, i \in Intensities}

\* ----------------------------------------------------------------- Surface
IdealId == 1
StopId == 2
Shapes == {Rectangular(MaxCoord)}
Reflectivities == {Reduce(k, RDen) : k \in (-1)..(RDen + 1)}
Focals == {D(f) : f \in (-MaxF)..MaxF}
Indices == {One, <<3, 2>>}

\* IdealSurface(f, shape=..., reflectivity=...): Surface.__init__ then self.f = f
IdealSurface(f, shape, reflectivity) ==
    [class |-> "IdealSurface", f |-> f, shape |-> shape,
     reflectivity |-> reflectivity, id |-> IdealId]

\* Surface.reflectivity_function for a constant coating: the stored value,
\* whatever the wavelength
reflectivity_function(self, wavelength) == self.reflectivity

IdealSurface_calculate_intersection_sign(self, incident_ray) ==
    LET u == DDiv(incident_ray.origin[3], incident_ray.direction[3])
    IN  IF DEq(incident_ray.direction[3], Zero) THEN assign_nan_to_vector3d
        ELSE VAdd(incident_ray.origin, VScale(incident_ray.direction, u))

\* IdealSurface._calculate_intersection: the point where the ray meets z = 0
IdealSurface_calculate_intersection(self, incident_ray) ==
    LET x1 == incident_ray.origin[1]
        y1 == incident_ray.origin[2]
        z1 == incident_ray.origin[3]
        dx == incident_ray.direction[1]
        dy == incident_ray.direction[2]
        dz == incident_ray.direction[3]
        u == DDiv(DNeg(z1), dz)
        X == DAdd(x1, DMul(u, dx))
        Y == DAdd(y1, DMul(u, dy))
        Z == DAdd(z1, DMul(u, dz))
    IN  IF DEq(dz, Zero) THEN assign_nan_to_vector3d
        ELSE assign_doubles_to_vector3d(X, Y, Z)

\* Surface.intersection_cy: the variant's intersection, clipped to the
\* surface's aperture boundary (a point outside the shape is NO_HIT)
intersection_cy(self, incident_ray) ==
    LET p == IdealSurface_calculate_intersection(self, incident_ray)
    IN  IF hit_cy(self.shape, p) THEN p ELSE assign_nan_to_vector3d

FocalPoint_signed(self, dirv) == VScale(dirv, DDiv(self.f, dirv[3]))

\* FP = dir * f / abs(rz)
FocalPoint(self, dirv) == VScale(dirv, DDiv(self.f, fabs(dirv[3])))

\* isnan(intersection_point(0)) or isnan(...(1)) or isnan(...(2))
NoHit_unchecked(intersection_point) == FALSE
NoHit(intersection_point) == VHasNaN(intersection_point)

\* reflect > 1.0 or reflect < 0.0
OutOfRange_upper_only(reflect) == DLt(One, reflect)
OutOfRange(reflect) == DLt(One, reflect) \/ DLt(reflect, Zero)

\* reflect == 0.0
PureTransmission(reflect) == DEq(reflect, Zero)

\* reflect == 1.0
PureReflection_never(reflect) == FALSE
PureReflection(reflect) == DEq(reflect, One)

\* d = FP - intersection_point; if self.f < 0.0: d = -d; d.normalize()
TransmittedDirection_unflipped(self, FP, intersection_point) ==
    normalize(VSub(FP, intersection_point))

TransmittedDirection(self, FP, intersection_point) ==
    LET d == VSub(FP, intersection_point)
    IN  normalize(IF DLt(self.f, Zero) THEN VNeg(d) ELSE d)

\* rdir = intersection_point - FP; rdir.normalize()
ReflectedDirection(FP, intersection_point) ==
    normalize(VSub(intersection_point, FP))

TransmittedIntensity_unsplit(intensity, reflect) == intensity
TransmittedIntensity(intensity, reflect) == DMul(intensity, DSub(One, reflect))
ReflectedIntensity(intensity, reflect) == DMul(intensity, reflect)

TransmittedRay_same_medium(self, ref, incident_ray, intersection_point, d, intensity, nr) ==
    fast_init(ref, intersection_point, d, intensity, incident_ray.wavelength,
              incident_ray.n, incident_ray.label, incident_ray.draw_color, NoRef, Zero,
              self.id, 0, incident_ray.parent_cnt + 1)

TransmittedRay_same_generation(self, ref, incident_ray, intersection_point, d, intensity, nr) ==
    fast_init(ref, intersection_point, d, intensity, incident_ray.wavelength, nr,
              incident_ray.label, incident_ray.draw_color, NoRef, Zero, self.id, 0,
              incident_ray.parent_cnt)

TransmittedRay(self, ref, incident_ray, intersection_point, d, intensity, nr) ==
    fast_init(ref, intersection_point, d, intensity, incident_ray.wavelength, nr,
              incident_ray.label, incident_ray.draw_color, NoRef, Zero, self.id, 0,
              incident_ray.parent_cnt + 1)

ReflectedRay_same_generation(self, ref, incident_ray, intersection_point, rdir, intensity, ni) ==
    fast_init(ref, intersection_point, rdir, intensity, incident_ray.wavelength, ni,
              incident_ray.label, incident_ray.draw_color, NoRef, Zero, self.id, 0,
              incident_ray.parent_cnt)

ReflectedRay_generation_skip(self, ref, incident_ray, intersection_point, rdir, intensity, ni) ==
    fast_init(ref, intersection_point, rdir, intensity, incident_ray.wavelength, ni,
              incident_ray.label, incident_ray.draw_color, NoRef, Zero, self.id, 0,
              incident_ray.parent_cnt + 2)

ReflectedRay(self, ref, incident_ray, intersection_point, rdir, intensity, ni) ==
    fast_init(ref, intersection_point, rdir, intensity, incident_ray.wavelength, ni,
              incident_ray.label, incident_ray.draw_color, NoRef, Zero, self.id, 0,
              incident_ray.parent_cnt + 1)

Returned(rays, point) ==
    [status |-> "returned", value |-> rays, exc |-> "", intersection_point |-> point]
Raised(exc, point) ==
    [status |-> "raised", value |-> <<>>, exc |-> exc, intersection_point |-> point]

\* IdealSurface.propagate(incident_ray, ni, nr); new Ray objects take the
\* references after the incident ray's
IdealSurface_propagate_reflectivity_first(self, incident_ray, ni, nr) ==
    LET intersection_point == intersection_cy(self, incident_ray)
        dirv == incident_ray.direction
        FP == FocalPoint(self, dirv)
        reflect == reflectivity_function(self, incident_ray.wavelength)
        d == TransmittedDirection(self, FP, intersection_point)
        rdir == ReflectedDirection(FP, intersection_point)
        r1 == incident_ray.ref + 1
        r2 == incident_ray.ref + 2
    IN  IF OutOfRange(reflect) THEN Raised("ValueError", intersection_point)
        ELSE IF NoHit(intersection_point) THEN Returned(<<>>, intersection_point)
        ELSE IF DEq(dirv[3], Zero) THEN Returned(<<>>, intersection_point)
        ELSE IF PureTransmission(reflect) THEN
            Returned(<<TransmittedRay(self, r1, incident_ray, intersection_point, d,
                                      incident_ray.intensity, nr)>>,
                     intersection_point)
        ELSE IF PureReflection(reflect) THEN
            Returned(<<ReflectedRay(self, r1, incident_ray, intersection_point, rdir,
                                    incident_ray.intensity, ni)>>,
                     intersection_point)
        ELSE
            Returned(<<TransmittedRay(self, r1, incident_ray, intersection_point, d,
                           TransmittedIntensity(incident_ray.intensity, reflect), nr),
                       ReflectedRay(self, r2, incident_ray, intersection_point, rdir,
                           ReflectedIntensity(incident_ray.intensity, reflect), ni)>>,
                     intersection_point)

IdealSurface_propagate(self, incident_ray, ni, nr) ==
    LET intersection_point == intersection_cy(self, incident_ray)
        dirv == incident_ray.direction
        rz == dirv[3]
        FP == FocalPoint(self, dirv)
        reflect == reflectivity_function(self, incident_ray.wavelength)
        d == TransmittedDirection(self, FP, intersection_point)
        rdir == ReflectedDirection(FP, intersection_point)
        r1 == incident_ray.ref + 1
        r2 == incident_ray.ref + 2
    IN  IF NoHit(intersection_point) THEN Returned(<<>>, intersection_point)
        ELSE IF DEq(rz, Zero) THEN Returned(<<>>, intersection_point)
        ELSE IF OutOfRange(reflect) THEN Raised("ValueError", intersection_point)
        ELSE IF PureTransmission(reflect) THEN
            Returned(<<TransmittedRay(self, r1, incident_ray, intersection_point, d,
                                      incident_ray.intensity, nr)>>,
                     intersection_point)
        ELSE IF PureReflection(reflect) THEN
            Returned(<<ReflectedRay(self, r1, incident_ray, intersection_point, rdir,
                                    incident_ray.intensity, ni)>>,
                     intersection_point)
        ELSE
            Returned(<<TransmittedRay(self, r1, incident_ray, intersection_point, d,
                           TransmittedIntensity(incident_ray.intensity, reflect), nr),
                       ReflectedRay(self, r2, incident_ray, intersection_point, rdir,
                           ReflectedIntensity(incident_ray.intensity, reflect), ni)>>,
                     intersection_point)

IdealSurface_propagate_incident_redirected(self, incident_ray) ==
    [incident_ray EXCEPT !.direction = VNeg(incident_ray.direction)]

\* IdealSurface.propagate: the incident Ray object after the call.  The method
\* copies incident_ray._direction into the local dirv and only reads the
\* object's other fields; it assigns to none of them.
IdealSurface_propagate_incident(self, incident_ray) == incident_ray

\* ------------------------------------------------------------- OpticalStop
ApShapes == {None, Rectangular(1), Rectangular(MaxCoord + 1)}

\* OpticalStop(ap_shape, shape=...): Plane.__init__ then self.ap_shape = ap_shape
OpticalStop(ap_shape, shape) ==
    [class |-> "OpticalStop", ap_shape |-> ap_shape, shape |-> shape,
     reflectivity |-> One, id |-> StopId]

\* Plane._calculate_intersection: the flat variant's intersection with its
\* local z = 0 plane; a ray parallel to the plane, or one whose intersection
\* parameter is behind its origin, is NO_HIT
Plane_calculate_intersection(self, incident_ray) ==
    LET P1 == incident_ray.origin
        L1 == incident_ray.direction
        u == DDiv(DNeg(P1[3]), L1[3])
    IN  IF DEq(L1[3], Zero) \/ DLt(u, Zero) THEN assign_nan_to_vector3d
        ELSE VAdd(P1, VScale(L1, u))

OpticalStop_calculate_intersection_inverted(self, incident_ray) ==
    LET intersection_point == Plane_calculate_intersection(self, incident_ray)
    IN  IF ~self.ap_shape.none /\ ~hit_cy(self.ap_shape, intersection_point)
        THEN assign_nan_to_vector3d
        ELSE intersection_point

\* OpticalStop._calculate_intersection: the plane's point, blanked when it
\* falls in the internal aperture
OpticalStop_calculate_intersection(self, incident_ray) ==
    LET intersection_point == Plane_calculate_intersection(self, incident_ray)
    IN  IF ~self.ap_shape.none /\ hit_cy(self.ap_shape, intersection_point)
        THEN assign_nan_to_vector3d
        ELSE intersection_point

OpticalStop_propagate_refracting(self, ri, ni, nr) ==
    LET PI == OpticalStop_calculate_intersection(self, ri)
        ret_ray == fast_init(ri.ref + 1, PI, ri.direction, Zero, ri.wavelength, nr,
                             ri.label, ri.draw_color, ri.ref, ri.pop, self.id, 0,
                             ri.parent_cnt + 1)
    IN  Returned(<<ret_ray>>, PI)

\* OpticalStop.propagate(ri, ni, nr)
OpticalStop_propagate(self, ri, ni, nr) ==
    LET PI == OpticalStop_calculate_intersection(self, ri)
        ret_ray == fast_init(ri.ref + 1, PI, ri.direction, Zero, ri.wavelength, ri.n,
                             ri.label, ri.draw_color, ri.ref, ri.pop, self.id, 0,
                             ri.parent_cnt + 1)
    IN  Returned(<<ret_ray>>, PI)

\* OpticalStop.propagate: the Ray object ri after the call; the method reads
\* ri and hands its fields to Ray.fast_init, it assigns to none of them.
OpticalStop_propagate_incident(self, ri) == ri

\* --------------------------------------------------------------- SimpleDMD
DMDId == 3

\* An angle in radians is held by its sine and cosine, <<sin, cos>>, a point of
\* the unit circle with rational coordinates: 0, pi/2, pi, 3pi/2 and the
\* angles of the 3-4-5 triangle.
Angle(s, c) == <<s, c>>
sin(a) == a[1]
cos(a) == a[2]
TiltAngles == {Angle(Zero, One), Angle(<<3, 5>>, <<4, 5>>), Angle(One, Zero)}
DirectionAngles == {Angle(Zero, One), Angle(One, Zero), Angle(Zero, D(-1)),
                    Angle(D(-1), Zero), Angle(<<4, 5>>, <<3, 5>>)}
StateValues == {"on", "off", "flat", "ON", ""}

\* the keyword arguments a caller may add: none, or reflectivity=r
NoKwargs == [has_reflectivity |-> FALSE, reflectivity |-> Zero]
Kwargs == {NoKwargs} \cup
          {[has_reflectivity |-> TRUE, reflectivity |-> r] : r \in {Zero, <<1, 2>>}}

\* no object: the constructor has not run, or it raised
NoSurface == [class |-> "none"]

InitStateValid_any(state) == TRUE
\* state not in ("on", "off", "flat") in __init__
InitStateValid(state) == state \in {"on", "off", "flat"}

\* value not in ("on", "off", "flat") in the setter
SetStateValid(value) == value \in {"on", "off", "flat"}

pop_reflectivity_kept(kwargs) == kwargs
\* kwargs.pop('reflectivity', None)
pop_reflectivity(kwargs) == [kwargs EXCEPT !.has_reflectivity = FALSE]

\* (sin(tilt)cos(dir), sin(tilt)sin(dir), cos(tilt)), then normalize()
TiltedNormal(tilt_angle, direction_angle) ==
    normalize(<<DMul(sin(tilt_angle), cos(direction_angle)),
                DMul(sin(tilt_angle), sin(direction_angle)),
                cos(tilt_angle)>>)

DMDReturned(value, normal) ==
    [status |-> "returned", exc |-> "", value |-> value, normal |-> normal]
DMDRaised(exc) ==
    [status |-> "raised", exc |-> exc, value |-> "", normal |-> VNaN]

\* SimpleDMD.__init__(tilt_angle, on_direction_angle, off_direction_angle,
\* state, shape, **kwargs): the new object, or the exception raised.
\* Plane.__init__(self, shape=shape, reflectivity=1.0, **kwargs) is a
\* TypeError when kwargs still names reflectivity (keyword given twice).
SimpleDMD_init(tilt_angle, on_direction_angle, off_direction_angle, state, shape, kwargs) ==
    LET kw == pop_reflectivity(kwargs)
    IN  IF ~InitStateValid(state) THEN [exc |-> "ValueError", self |-> NoSurface]
        ELSE IF kw.has_reflectivity THEN [exc |-> "TypeError", self |-> NoSurface]
        ELSE [exc |-> "",
              self |-> [class |-> "SimpleDMD", shape |-> shape, reflectivity |-> One,
                        id |-> DMDId,
                        _tilt_angle |-> tilt_angle,
                        _on_direction_angle |-> on_direction_angle,
                        _off_direction_angle |-> off_direction_angle,
                        _normal_on |-> TiltedNormal(tilt_angle, on_direction_angle),
                        _normal_off |-> TiltedNormal(tilt_angle, off_direction_angle),
                        _normal_flat |-> normalize(VecI(0, 0, 1)),
                        _state |-> state]]

\* SimpleDMD.state (getter)
SimpleDMD_state(self) == self._state

SimpleDMD_set_state_recompute(self, value) ==
    IF ~SetStateValid(value) THEN [exc |-> "ValueError", self |-> self]
    ELSE [exc |-> "",
          self |-> [self EXCEPT !._state = value,
                                !._normal_flat = IF value = "on" THEN self._normal_on
                                                 ELSE IF value = "off" THEN self._normal_off
                                                 ELSE self._normal_flat]]

SimpleDMD_set_state_store_first(self, value) ==
    IF ~SetStateValid(value) THEN [exc |-> "ValueError", self |-> [self EXCEPT !._state = value]]
    ELSE [exc |-> "", self |-> [self EXCEPT !._state = value]]

\* SimpleDMD.state (setter): the object after the assignment, and the exception
SimpleDMD_set_state(self, value) ==
    IF ~SetStateValid(value) THEN [exc |-> "ValueError", self |-> self]
    ELSE [exc |-> "", self |-> [self EXCEPT !._state = value]]

SimpleDMD_calculate_normal_self_resetting(self, intersection_point) ==
    [self EXCEPT !._state = "flat"]

\* SimpleDMD._calculate_normal(intersection_point, normal): the object after
\* the call; the method assigns to its output parameter normal only
SimpleDMD_calculate_normal_self(self, intersection_point) == self

SimpleDMD_calculate_normal_on_only(self, intersection_point) ==
    IF self._state = "on" THEN self._normal_on ELSE self._normal_flat

\* SimpleDMD._calculate_normal(intersection_point, normal): the output normal
SimpleDMD_calculate_normal(self, intersection_point) ==
    IF self._state = "on" THEN self._normal_on
    ELSE IF self._state = "off" THEN self._normal_off
    ELSE self._normal_flat

\* ------------------------------------------------------------------ tracer
\* The propagation engine: a work list of active rays per source ray, each
\* resolved against the placed surfaces of the scene (nearest hit), handed to
\* the hit surface's propagate, its children enqueued or cut off.

\* the configured minimum intensity; the maximum depth is MaxDepth
MinIntensity == <<1, 4>>
\* a ray tree of depth MaxDepth + 1 with at most two children per ray
MaxRays == 2 ^ (MaxDepth + 2)

\* A pose: a translation along z and, when flip holds, a half turn about the
\* y axis, so that the surface faces the other way.
Pose(z, flip) == [z |-> D(z), flip |-> flip]
Placed(surf, pose) == [surf |-> surf, pose |-> pose]
HalfTurn(v) == <<DNeg(v[1]), v[2], DNeg(v[3])>>

\* parent frame -> the surface's local frame (inverse pose)
ToLocalPoint(pose, p) ==
    LET q == <<p[1], p[2], DSub(p[3], pose.z)>>
    IN  IF pose.flip THEN HalfTurn(q) ELSE q
ToLocalDirection(pose, d) == IF pose.flip THEN HalfTurn(d) ELSE d
\* the surface's local frame -> parent frame
ToGlobalPoint(pose, p) ==
    LET q == IF pose.flip THEN HalfTurn(p) ELSE p
    IN  <<q[1], q[2], DAdd(q[3], pose.z)>>
ToGlobalDirection(pose, d) == IF pose.flip THEN HalfTurn(d) ELSE d

LocalRay(pose, ray) ==
    [ray EXCEPT !.origin = ToLocalPoint(pose, ray.origin),
                !.direction = ToLocalDirection(pose, ray.direction)]
GlobalRay(pose, ray) ==
    [ray EXCEPT !.origin = ToGlobalPoint(pose, ray.origin),
                !.direction = ToGlobalDirection(pose, ray.direction)]

\* intersect(ray_local) of a surface variant, clipped to its aperture boundary
Surface_intersection(self, ray) ==
    LET p == IF self.class = "IdealSurface"
             THEN IdealSurface_calculate_intersection(self, ray)
             ELSE OpticalStop_calculate_intersection(self, ray)
    IN  IF hit_cy(self.shape, p) THEN p ELSE assign_nan_to_vector3d

\* propagate(incident_ray_local, n_incident, n_transmitted) of a surface variant
Surface_propagate(self, ray, ni, nr) ==
    IF self.class = "IdealSurface" THEN IdealSurface_propagate(self, ray, ni, nr)
    ELSE OpticalStop_propagate(self, ray, ni, nr)

\* the distance along the ray to its intersection with a placed surface, in
\* units of the length of the ray's direction vector; NaN when NO_HIT
HitDistance(placed, ray) ==
    LET lr == LocalRay(placed.pose, ray)
        p == Surface_intersection(placed.surf, lr)
    IN  DDiv(VDot(VSub(p, lr.origin), lr.direction), VDot(lr.direction, lr.direction))

\* A valid hit: an intersection at a non-negative distance.  A child ray
\* starts on the surface that produced it, at distance zero from it; whether
\* that intersection counts as a hit is left open, and zero tells which way
\* the engine reads it.
ValidHit(u, zero) == ~isnan(u) /\ (IF zero THEN DLe(Zero, u) ELSE DLt(Zero, u))

\* nearest-hit selection: the index of the surface hit at the smallest
\* non-negative distance, the first declared among equals; 0 when none is hit
NearestHit_first_declared(sc, ray, zero) ==
    LET H == {i \in DOMAIN sc : ValidHit(HitDistance(sc[i], ray), zero)}
    IN  IF H = {} THEN 0 ELSE CHOOSE i \in H : \A j \in H : i <= j

NearestHit(sc, ray, zero) ==
    CHOOSE h \in
        {LET H == {i \in DOMAIN sc : ValidHit(dist[i], zero)}
         IN  IF H = {} THEN 0
             ELSE CHOOSE i \in H : \A j \in H :
                    \/ DLt(dist[i], dist[j])
                    \/ (dist[i] = dist[j] /\ i <= j) :
            dist \in {[i \in DOMAIN sc |-> HitDistance(sc[i], ray)]}} : TRUE

\* the termination predicates on a would-be child
Cutoff(child) == child.parent_cnt > MaxDepth \/ DLt(child.intensity, MinIntensity)

\* a ray of a ray tree: the ray, the reference of the ray that spawned it and
\* what became of it
Node(ray, from, fate) == [ray |-> ray, from |-> from, fate |-> fate]

\* ------------------------------------------------------------------- state
VARIABLES
    surface,        \* the surface object under call
    incident_ray,   \* the Ray handed to it, in the surface's coordinate system
    call,           \* the last call made on the surface, with its arguments
    result,         \* what that call returned or raised, and its output point
    created,        \* the Ray objects that call constructed
    scene,          \* the tracer's scene: the placed surfaces, in insertion order
    active,         \* per source ray, the work list of rays still to trace
    traced,         \* per source ray, its ray tree: the rays resolved so far
    status,         \* per source ray, "tracing" or "aborted"
    zero_hit        \* whether the engine takes an intersection at distance zero

tracer == <<scene, active, traced, status, zero_hit>>
vars == <<surface, incident_ray, call, result, created, scene, active, traced, status, zero_hit>>

\* no trace is under way
NoTrace == scene = <<>> /\ active = <<>> /\ traced = <<>> /\ status = <<>> /\ zero_hit = FALSE

NoCall == [op |-> "none", ni |-> Zero, nr |-> Zero]
NoResult == [status |-> "none", value |-> <<>>, exc |-> "", intersection_point |-> VNaN]

InitIdeal ==
    /\ surface \in {IdealSurface(f, s, r) : f \in Focals, s \in Shapes, r \in Reflectivities}
    /\ incident_ray \in SourceRays
    /\ call = NoCall
    /\ result = NoResult
    /\ created = <<>>
    /\ NoTrace

\* a caller computes the intersection of the ray with the ideal surface
CallIdealIntersection ==
    /\ surface.class = "IdealSurface"
    /\ call' = [op |-> "_calculate_intersection", ni |-> Zero, nr |-> Zero]
    /\ result' = Returned(<<>>, IdealSurface_calculate_intersection(surface, incident_ray))
    /\ created' = <<>>
    /\ UNCHANGED <<surface, incident_ray>>
    /\ UNCHANGED tracer

\* a caller propagates the ray through the ideal surface
CallIdealPropagate ==
    /\ surface.class = "IdealSurface"
    /\ \E ni \in Indices, nr \in Indices :
        /\ call' = [op |-> "propagate", ni |-> ni, nr |-> nr]
        /\ result' = IdealSurface_propagate(surface, incident_ray, ni, nr)
        /\ created' = result'.value
    /\ incident_ray' = IdealSurface_propagate_incident(surface, incident_ray)
    /\ UNCHANGED surface
    /\ UNCHANGED tracer

NextIdeal == CallIdealIntersection \/ CallIdealPropagate

SpecIdeal == InitIdeal /\ [][NextIdeal]_vars

InitStop ==
    /\ surface \in {OpticalStop(a, s) : a \in ApShapes, s \in Shapes}
    /\ incident_ray \in SourceRays
    /\ call = NoCall
    /\ result = NoResult
    /\ created = <<>>
    /\ NoTrace

\* a caller computes the intersection of the ray with the stop
CallStopIntersection ==
    /\ surface.class = "OpticalStop"
    /\ call' = [op |-> "_calculate_intersection", ni |-> Zero, nr |-> Zero]
    /\ result' = Returned(<<>>, OpticalStop_calculate_intersection(surface, incident_ray))
    /\ created' = <<>>
    /\ UNCHANGED <<surface, incident_ray>>
    /\ UNCHANGED tracer

\* a caller propagates the ray through the stop
CallStopPropagate ==
    /\ surface.class = "OpticalStop"
    /\ \E ni \in Indices, nr \in Indices :
        /\ call' = [op |-> "propagate", ni |-> ni, nr |-> nr]
        /\ result' = OpticalStop_propagate(surface, incident_ray, ni, nr)
        /\ created' = result'.value
    /\ incident_ray' = OpticalStop_propagate_incident(surface, incident_ray)
    /\ UNCHANGED surface
    /\ UNCHANGED tracer

NextStop == CallStopIntersection \/ CallStopPropagate

SpecStop == InitStop /\ [][NextStop]_vars

\* ------------------------------------------------------- IdealSurface claims
IdealPropagated == surface.class = "IdealSurface" /\ call.op = "propagate"
R == surface.reflectivity
RInRange == DLe(Zero, R) /\ DLe(R, One)
\* the intersection step of the call produced a point (no NaN coordinate)
Hit == ~(\E i \in 1..3 : result.intersection_point[i] = NaN)
Children == result.value

\* C1: a propagate call of IdealSurface on a ray that hits, with R in [0,1],
\* returns exactly one ray when R = 0, exactly one when R = 1, and exactly
\* two when 0 < R < 1.
C1_ChildCount ==
    (IdealPropagated /\ Hit /\ RInRange) =>
        /\ result.status = "returned"
        /\ Len(Children) = (IF R = Zero \/ R = One THEN 1 ELSE 2)

C1_Witness ==
    /\ IdealPropagated /\ Hit /\ RInRange
    /\ R = One
    /\ Len(Children) = 1

\* C2: the intensities of the children returned by IdealSurface.propagate sum
\* to the incident intensity: intensity*(1-R) transmitted and intensity*R
\* reflected when split, the full intensity for the single child otherwise.
C2_EnergySplit ==
    (IdealPropagated /\ result.status = "returned" /\ Len(Children) > 0) =>
        LET I == incident_ray.intensity
        IN  /\ Len(Children) = 1 => Children[1].intensity = I
            /\ Len(Children) = 2 =>
                /\ Children[1].intensity = Reduce(I[1] * (R[2] - R[1]), I[2] * R[2])
                /\ Children[2].intensity = Reduce(I[1] * R[1], I[2] * R[2])
                /\ DAdd(Children[1].intensity, Children[2].intensity) = I

C2_Witness ==
    /\ IdealPropagated /\ Len(Children) = 2
    /\ incident_ray.intensity = D(3)
    /\ Children[1].intensity = <<3, 2>>
    /\ Children[2].intensity = <<3, 2>>

\* C3: a transmitted child has medium index nr and a reflected child has ni;
\* when the beam is split the first ray is the transmitted one (index nr,
\* intensity share 1-R) and the second the reflected one (index ni).
C3_MediumIndex ==
    (IdealPropagated /\ result.status = "returned" /\ Len(Children) > 0) =>
        /\ R = Zero => Children[1].n = call.nr
        /\ R = One => Children[1].n = call.ni
        /\ Len(Children) = 2 =>
            /\ Children[1].n = call.nr
            /\ Children[1].intensity = DMul(incident_ray.intensity, DSub(One, R))
            /\ Children[2].n = call.ni
            /\ Children[2].intensity = DMul(incident_ray.intensity, R)
            \* with f > 0 the transmitted ray goes on, the reflected one comes back
            /\ DLt(Zero, surface.f) =>
                /\ Children[1].direction[3][1] * incident_ray.direction[3][1] > 0
                /\ Children[2].direction[3][1] * incident_ray.direction[3][1] < 0

C3_Witness ==
    /\ IdealPropagated /\ Len(Children) = 2
    /\ call.ni # call.nr
    /\ Children[1].n = call.nr
    /\ Children[2].n = call.ni

\* C4: when the ray hits and the reflectivity is below 0 or above 1, the call
\* raises ValueError and neither returns nor creates a child ray.
C4_BadReflectivityRaises ==
    (IdealPropagated /\ Hit /\ incident_ray.direction[3] # Zero /\ ~RInRange) =>
        /\ result.status = "raised"
        /\ result.exc = "ValueError"
        /\ result.value = <<>>
        /\ created = <<>>

C4_Witness ==
    /\ IdealPropagated /\ Hit
    /\ R[1] < 0
    /\ result.status = "raised"

\* C5: when the intersection step yields NO_HIT or the direction's z-component
\* is zero, propagate returns the empty list, raises nothing and creates no ray.
C5_NoHitReturnsEmpty ==
    (IdealPropagated /\ (~Hit \/ incident_ray.direction[3] = Zero)) =>
        /\ result.status = "returned"
        /\ result.value = <<>>
        /\ created = <<>>

\* a ray that crosses z = 0 outside the surface's shape, under a reflectivity in range
C5_Witness ==
    /\ IdealPropagated /\ ~Hit
    /\ incident_ray.direction[3] # Zero
    /\ RInRange
    /\ result.status = "returned" /\ result.value = <<>>

IdealIntersected == surface.class = "IdealSurface" /\ call.op = "_calculate_intersection"
\* -origin.z / direction.z, for a direction that is not parallel to the plane
IntersectionParameter == DDiv(DNeg(incident_ray.origin[3]), incident_ray.direction[3])

\* C6: IdealSurface._calculate_intersection reports a ray parallel to z = 0 by
\* NaN in all three coordinates and raises nothing; for any other ray it
\* outputs origin + u*direction with u = -origin.z/direction.z, a point with z = 0.
C6_PlaneIntersection ==
    IdealIntersected =>
        /\ result.status = "returned"
        /\ incident_ray.direction[3] = Zero =>
            \A i \in 1..3 : result.intersection_point[i] = NaN
        /\ incident_ray.direction[3] # Zero =>
            /\ \A i \in 1..3 :
                result.intersection_point[i] =
                    DAdd(incident_ray.origin[i],
                         DMul(IntersectionParameter, incident_ray.direction[i]))
            /\ result.intersection_point[3] = Zero

\* an oblique ray starting off the plane, met at a point away from its origin's x, y
C6_Witness ==
    /\ IdealIntersected
    /\ incident_ray.origin = VecI(1, 0, -1)
    /\ incident_ray.direction = VecI(-1, 1, 1)
    /\ result.intersection_point = VecI(0, 1, 0)

\* C7: a ray whose intersection with z = 0 lies behind its origin (u < 0) is
\* NO_HIT at the intersection step, so propagate creates no child for it.
C7_BehindOriginIsNoHit ==
    /\ (IdealIntersected /\ incident_ray.direction[3] # Zero
            /\ DLt(IntersectionParameter, Zero)) =>
        result.intersection_point = VNaN
    /\ (IdealPropagated /\ incident_ray.direction[3] # Zero
            /\ DLt(IntersectionParameter, Zero)) =>
        result.value = <<>>

\* the focal point the claim names: incident_direction * f / |incident_direction.z|
C8_FP ==
    [i \in 1..3 |->
        DDiv(DMul(incident_ray.direction[i], surface.f), fabs(incident_ray.direction[3]))]

\* C8: with f > 0 and R = 0 the transmitted child starts at the intersection
\* point and runs towards FP = direction*f/|direction.z|, a point that does not
\* depend on the origin and lies in the plane z = f*sign(direction.z); so the
\* children of rays sharing a direction all pass through the same point.
C8_Focusing ==
    (IdealPropagated /\ DLt(Zero, surface.f) /\ R = Zero /\ Len(Children) = 1) =>
        LET c == Children[1]
            toFP == VSub(<<C8_FP[1], C8_FP[2], C8_FP[3]>>, c.origin)
        IN  /\ c.origin = result.intersection_point
            /\ c.origin[3] = Zero
            /\ VCross(c.direction, toFP) = VZero
            /\ DLt(Zero, VDot(c.direction, toFP))
            /\ C8_FP[3] = DMul(surface.f, D(Sign(incident_ray.direction[3])))

\* a ray travelling towards -z from an off-axis origin, focused at (-2, 0, -2)
C8_Witness ==
    /\ IdealPropagated /\ surface.f = D(2) /\ R = Zero /\ Len(Children) = 1
    /\ incident_ray.origin = VecI(1, 1, 1)
    /\ incident_ray.direction = VecI(-1, 0, -1)
    /\ Children[1].origin = VecI(0, 1, 0)
    /\ Children[1].direction = VecI(-2, -1, -2)

\* -------------------------------------------------------- OpticalStop claims
StopPropagated == surface.class = "OpticalStop" /\ call.op = "propagate"
StopIntersected == surface.class = "OpticalStop" /\ call.op = "_calculate_intersection"

PlanePoint == Plane_calculate_intersection(surface, incident_ray)
\* that point lies inside the internal aperture shape
InHole ==
    /\ ~surface.ap_shape.none
    /\ DLe(fabs(PlanePoint[1]), surface.ap_shape.half)
    /\ DLe(fabs(PlanePoint[2]), surface.ap_shape.half)

\* C10: OpticalStop._calculate_intersection outputs NaN in all coordinates
\* when the plane's intersection point is inside ap_shape, and exactly the
\* Plane's result when the point is outside ap_shape or ap_shape is None.
C10_HoleIsNoHit ==
    StopIntersected =>
        /\ InHole => \A i \in 1..3 : result.intersection_point[i] = NaN
        /\ ~InHole => result.intersection_point = PlanePoint

\* a ray that meets the plane at (1, 1, 0), inside a hole of half-size 1
C10_Witness ==
    /\ StopIntersected
    /\ surface.ap_shape = Rectangular(1)
    /\ PlanePoint = VecI(1, 1, 0)
    /\ result.intersection_point = VNaN

\* the same point with no hole in the stop
C10_WitnessOutside ==
    /\ StopIntersected
    /\ surface.ap_shape.none
    /\ result.intersection_point = VecI(1, 1, 0)

\* the stop's own intersection of the incident ray is a point (outside the hole)
StopValid == ~InHole /\ (\A i \in 1..3 : PlanePoint[i] # NaN)

\* C11: for a ray whose intersection with the stop is valid, propagate returns
\* exactly one child, located at the intersection point, with the incident
\* ray's direction and medium index whatever ni and nr are.
C11_StopPassThrough ==
    (StopPropagated /\ StopValid) =>
        /\ result.status = "returned"
        /\ Len(Children) = 1
        /\ Children[1].origin = PlanePoint
        /\ Children[1].direction = incident_ray.direction
        /\ Children[1].n = incident_ray.n

\* an oblique ray passing outside a hole of half-size 1, called with indices
\* that both differ from the ray's own
C11_Witness ==
    /\ StopPropagated /\ StopValid
    /\ surface.ap_shape = Rectangular(1)
    /\ call.ni = <<3, 2>> /\ call.nr = <<3, 2>>
    /\ incident_ray.direction = VecI(1, 0, 1)
    /\ Children[1].origin = VecI(2, 0, 0)
    /\ Children[1].n = One

\* C12: a ray landing inside the internal aperture hole is discarded:
\* propagate returns the empty list and never a ray whose origin is NaN.
C12_HoleRayDiscarded ==
    (StopPropagated /\ InHole) =>
        /\ result.value = <<>>
        /\ \A i \in 1..Len(Children) : Children[i].origin # VNaN

\* ---------------------------------------------------------------- SimpleDMD
NoDMDCall == [op |-> "none", value |-> "", point |-> VNaN, kwargs |-> NoKwargs]

InitDMD ==
    /\ surface = NoSurface
    /\ incident_ray \in {r \in SourceRays : r.origin = VecI(0, 0, -1)
                            /\ r.direction = VecI(0, 0, 1) /\ r.intensity = One}
    /\ call = NoDMDCall
    /\ result = DMDReturned("", VNaN)
    /\ created = <<>>
    /\ NoTrace

\* a caller constructs the mirror
ConstructDMD ==
    /\ surface.class = "none"
    /\ \E t \in TiltAngles, on \in DirectionAngles, off \in DirectionAngles,
          st \in StateValues, sh \in Shapes, kw \in Kwargs :
        LET r == SimpleDMD_init(t, on, off, st, sh, kw)
        IN  /\ call' = [op |-> "__init__", value |-> st, point |-> VNaN, kwargs |-> kw]
            /\ surface' = r.self
            /\ result' = IF r.exc = "" THEN DMDReturned("", VNaN) ELSE DMDRaised(r.exc)
    /\ UNCHANGED <<incident_ray, created>>
    /\ UNCHANGED tracer

\* a caller reads dmd.state
GetState ==
    /\ surface.class = "SimpleDMD"
    /\ call' = [op |-> "state", value |-> "", point |-> VNaN, kwargs |-> NoKwargs]
    /\ result' = DMDReturned(SimpleDMD_state(surface), VNaN)
    /\ UNCHANGED <<surface, incident_ray, created>>
    /\ UNCHANGED tracer

\* a caller assigns dmd.state = value
SetState ==
    /\ surface.class = "SimpleDMD"
    /\ \E value \in StateValues :
        LET r == SimpleDMD_set_state(surface, value)
        IN  /\ call' = [op |-> "state=", value |-> value, point |-> VNaN, kwargs |-> NoKwargs]
            /\ surface' = r.self
            /\ result' = IF r.exc = "" THEN DMDReturned("", VNaN) ELSE DMDRaised(r.exc)
    /\ UNCHANGED <<incident_ray, created>>
    /\ UNCHANGED tracer

\* the propagation code asks for the normal at a point of the mirror
CalculateNormal ==
    /\ surface.class = "SimpleDMD"
    /\ \E p \in {VecI(0, 0, 0), VecI(1, -1, 0), VNaN} :
        /\ call' = [op |-> "_calculate_normal", value |-> "", point |-> p, kwargs |-> NoKwargs]
        /\ result' = DMDReturned("", SimpleDMD_calculate_normal(surface, p))
        /\ surface' = SimpleDMD_calculate_normal_self(surface, p)
    /\ UNCHANGED <<incident_ray, created>>
    /\ UNCHANGED tracer

NextDMD == ConstructDMD \/ GetState \/ SetState \/ CalculateNormal

SpecDMD == InitDMD /\ [][NextDMD]_vars

\* ---------------------------------------------------------- SimpleDMD claims
IsDMD == surface.class = "SimpleDMD"
ValidStates == {"on", "off", "flat"}

\* the documented spherical formula for a tilt and a direction angle, normalized
C13_Spherical(tilt, dir) ==
    normalize(<<DMul(tilt[1], dir[2]), DMul(tilt[1], dir[1]), tilt[2]>>)

\* C13: _calculate_normal returns, whatever the point argument, (0,0,1) in
\* state "flat", the ON normal of the spherical formula in state "on" and the
\* OFF normal in state "off"; after a successful assignment state = v the
\* state, and so the next normal, is the one for v.
C13_StateNormal ==
    /\ (IsDMD /\ call.op = "_calculate_normal") =>
        /\ surface._state = "flat" => result.normal = VecI(0, 0, 1)
        /\ surface._state = "on" =>
            result.normal = C13_Spherical(surface._tilt_angle, surface._on_direction_angle)
        /\ surface._state = "off" =>
            result.normal = C13_Spherical(surface._tilt_angle, surface._off_direction_angle)
    /\ (IsDMD /\ call.op = "state=" /\ result.status = "returned") =>
        surface._state = call.value

\* tilt atan(3/4) towards the direction atan(4/3): the OFF normal is along (9, 12, 20)
C13_Witness ==
    /\ IsDMD /\ call.op = "_calculate_normal"
    /\ call.point = VecI(1, -1, 0)
    /\ surface._state = "off"
    /\ surface._tilt_angle = <<<<3, 5>>, <<4, 5>>>>
    /\ surface._off_direction_angle = <<<<4, 5>>, <<3, 5>>>>
    /\ surface._on_direction_angle = <<Zero, One>>
    /\ result.normal = VecI(9, 12, 20)

\* C14: the state of every constructed SimpleDMD is "on", "off" or "flat",
\* whatever constructions and assignments (rejected ones included) came
\* before; a construction with another state value raises ValueError and
\* leaves no mirror.
C14_StateIsValid ==
    /\ IsDMD => surface._state \in ValidStates
    /\ (call.op = "__init__" /\ call.value \notin ValidStates) =>
        /\ result.status = "raised"
        /\ result.exc = "ValueError"
        /\ ~IsDMD

C14_Witness ==
    /\ call.op = "__init__" /\ call.value = "ON"
    /\ result.exc = "ValueError"
    /\ surface = NoSurface

\* C15: assigning a value other than "on", "off", "flat" to state raises
\* ValueError and leaves the mirror as it was: the state read back and the
\* normal returned afterwards are those from before the assignment.
C15_RejectedAssignment ==
    [][(call'.op = "state=" /\ call'.value \notin ValidStates) =>
        /\ result'.status = "raised"
        /\ result'.exc = "ValueError"
        /\ surface' = surface
        /\ SimpleDMD_state(surface') = SimpleDMD_state(surface)
        /\ SimpleDMD_calculate_normal(surface', VZero)
               = SimpleDMD_calculate_normal(surface, VZero)]_vars

C15_Witness ==
    /\ IsDMD /\ call.op = "state=" /\ call.value = "ON"
    /\ result.exc = "ValueError"
    /\ surface._state = "on"

\* C16: a state assignment never re-derives geometry: the three precomputed
\* normals and the stored angles of a mirror keep their values at every step.
C16_GeometryFrozen ==
    [][(IsDMD /\ surface'.class = "SimpleDMD") =>
        /\ surface'._normal_on = surface._normal_on
        /\ surface'._normal_off = surface._normal_off
        /\ surface'._normal_flat = surface._normal_flat
        /\ surface'._tilt_angle = surface._tilt_angle
        /\ surface'._on_direction_angle = surface._on_direction_angle
        /\ surface'._off_direction_angle = surface._off_direction_angle]_vars

\* a mirror switched to "on" whose ON normal differs from its flat normal
C16_Witness ==
    /\ IsDMD /\ call.op = "state=" /\ call.value = "on" /\ result.status = "returned"
    /\ surface._state = "on"
    /\ surface._normal_on = VecI(3, 0, 4)
    /\ surface._normal_flat = VecI(0, 0, 1)

\* C17: a SimpleDMD has reflectivity 1 whatever the caller passes: a
\* reflectivity keyword is discarded before Plane.__init__, so a construction
\* with a valid state succeeds with reflectivity 1 in every state.
C17_AlwaysReflective ==
    /\ IsDMD => surface.reflectivity = One
    /\ (call.op = "__init__" /\ call.value \in ValidStates) =>
        /\ result.status = "returned"
        /\ IsDMD
        /\ surface.reflectivity = One

C17_Witness ==
    /\ IsDMD /\ call.op = "__init__"
    /\ call.kwargs.has_reflectivity /\ call.kwargs.reflectivity = <<1, 2>>
    /\ surface._state = "on"
    /\ surface.reflectivity = One

\* ------------------------------------------------------------------- tracer
\* the refractive index of the medium the scene stands in
AmbientN == One

\* the surfaces a scene is assembled from
Catalog ==
    {IdealSurface(f, s, r) : f \in Focals, s \in Shapes, r \in Reflectivities}
        \cup {OpticalStop(a, s) : a \in ApShapes, s \in Shapes}
Mirror == IdealSurface(One, Rectangular(MaxCoord), One)

\* a surface at z = 0 facing +z and a second one at z = 2 facing it
Facing ==
    {<<Placed(a, Pose(0, FALSE)), Placed(b, Pose(2, TRUE))>> :
        a \in Catalog, b \in {Mirror, OpticalStop(None, Rectangular(MaxCoord))}}
\* a stop and a mirror in the same plane z = 0, declared in either order
Coincident ==
    LET Stops == {OpticalStop(a, s) : a \in ApShapes, s \in Shapes}
    IN  {<<Placed(a, Pose(0, FALSE)), Placed(Mirror, Pose(0, FALSE))>> : a \in Stops}
            \cup {<<Placed(Mirror, Pose(0, FALSE)), Placed(a, Pose(0, FALSE))>> : a \in Stops}
Scenes == Facing \cup Coincident

\* source rays launched in the plane y = 0 from between the two surfaces, x >= 0
TraceRays ==
    {r \in SourceRays : /\ DLe(Zero, r.origin[1]) /\ r.origin[2] = Zero /\ r.origin[3] = One
                        /\ r.direction[2] = Zero /\ r.intensity = One}
AxisRay == CHOOSE r \in TraceRays : r.origin = VecI(0, 0, 1) /\ r.direction = VecI(0, 0, 1)
\* a launch bundle: one source ray, or a ray launched straight at the first
\* surface followed by the axial ray
Bundles ==
    {<<r>> : r \in TraceRays}
        \cup {<<r, AxisRay>> : r \in {q \in TraceRays : q.direction = VecI(0, 0, -1)}}

InitTrace ==
    /\ scene \in Scenes
    /\ zero_hit \in BOOLEAN
    /\ \E b \in Bundles :
        /\ active = [k \in 1..Len(b) |-> <<Node(b[k], NoRef, "active")>>]
        /\ traced = [k \in 1..Len(b) |-> <<>>]
        /\ status = [k \in 1..Len(b) |-> "tracing"]
    /\ surface = NoSurface
    /\ incident_ray = AxisRay
    /\ call = NoCall
    /\ result = NoResult
    /\ created = <<>>

\* The ray at the head of a work list met no surface: it is terminated.
TreeExit(act, trc) ==
    [ok |-> TRUE, raised |-> FALSE,
     active |-> Tail(act),
     traced |-> Append(trc, Node(Head(act).ray, Head(act).from, "exited")),
     surface |-> NoSurface, incident_ray |-> Head(act).ray,
     call |-> NoCall, result |-> NoResult, created |-> <<>>]

\* The children kids of the ray at the head of a work list are enqueued, or
\* recorded as terminal leaves when a termination predicate fires.
TreeEnqueue(kids, act, trc) ==
    LET ray == Head(act).ray
        live == SelectSeq(kids, LAMBDA c : ~Cutoff(c))
        cut == SelectSeq(kids, LAMBDA c : Cutoff(c))
    IN  [active |-> Tail(act) \o [i \in 1..Len(live) |-> Node(live[i], ray.ref, "active")],
         traced |-> Append(trc, Node(ray, Head(act).from,
                                IF kids = <<>> THEN "absorbed" ELSE "propagated"))
                    \o [i \in 1..Len(cut) |-> Node(cut[i], ray.ref, "cutoff")]]

\* The result res of propagate on the local ray lr is taken into the tree:
\* the children are brought back to the parent frame under fresh references
\* and enqueued; an exception ends the tree.
TreeTake(placed, lr, res, act, trc) ==
    CHOOSE out \in
        {[ok |-> Len(trc) + Len(act) + Len(kids) < MaxRays,
          raised |-> res.status = "raised",
          active |-> IF res.status = "raised" THEN <<>>
                     ELSE TreeEnqueue(kids, act, trc).active,
          traced |-> IF res.status = "raised"
                     THEN Append(trc, Node(Head(act).ray, Head(act).from, "error"))
                     ELSE TreeEnqueue(kids, act, trc).traced,
          surface |-> placed.surf, incident_ray |-> lr,
          call |-> [op |-> "propagate", ni |-> AmbientN, nr |-> AmbientN],
          result |-> res, created |-> res.value] :
            kids \in {[i \in 1..Len(res.value) |->
                        [GlobalRay(placed.pose, res.value[i])
                            EXCEPT !.ref = Len(trc) + Len(act) + i]]}} : TRUE

\* propagate of the hit surface is called on the local ray lr
TreeCall(placed, lr, act, trc) ==
    CHOOSE out \in
        {TreeTake(placed, lr, res, act, trc) :
            res \in {Surface_propagate(placed.surf, lr, AmbientN, AmbientN)}} : TRUE

\* The ray at the head of a work list is handed to the surface it hits, in
\* that surface's local frame.
TreeHit(placed, act, trc) ==
    CHOOSE out \in
        {TreeCall(placed, lr, act, trc) :
            lr \in {LocalRay(placed.pose, Head(act).ray)}} : TRUE

\* One step of the engine on one ray tree, given its work list and its
\* resolved rays: pop an active ray, find its nearest hit, then TreeExit or
\* TreeHit.
TreeStep(sc, zero, act, trc) ==
    CHOOSE out \in
        {IF h = 0 THEN TreeExit(act, trc) ELSE TreeHit(sc[h], act, trc) :
            h \in {NearestHit(sc, Head(act).ray, zero)}} : TRUE

Store_all(f, k, v) == [j \in DOMAIN f |-> v]

\* a write to the private structure of ray tree k
Store(f, k, v) == [f EXCEPT ![k] = v]

\* One step of the engine on the ray tree of source ray k.  An exception of
\* propagate aborts this ray tree.
TraceStep(k) ==
    /\ status[k] = "tracing"
    /\ active[k] # <<>>
    /\ \E out \in {TreeStep(scene, zero_hit, active[k], traced[k])} :
        /\ out.ok
        /\ active' = Store(active, k, out.active)
        /\ traced' = Store(traced, k, out.traced)
        /\ status' = IF out.raised THEN Store(status, k, "aborted") ELSE status
        /\ surface' = out.surface
        /\ incident_ray' = out.incident_ray
        /\ call' = out.call
        /\ result' = out.result
        /\ created' = out.created
    /\ UNCHANGED <<scene, zero_hit>>

Trace == \E k \in DOMAIN active : TraceStep(k)

NextTrace == Trace

SpecTrace == InitTrace /\ [][NextTrace]_vars

\* the engine's loop keeps taking steps while a ray is active
SpecTraceFair == SpecTrace /\ WF_vars(Trace)

TraceDone == \A k \in DOMAIN active : active[k] = <<>>

\* ------------------------------------------------------------ tracer claims
Trees == DOMAIN active
\* the rays of the ray tree of source ray k, resolved or still active
TreeNodes(k) ==
    {traced[k][i] : i \in DOMAIN traced[k]} \cup {active[k][i] : i \in DOMAIN active[k]}
\* the reference of the ray that spawned the ray ref of tree k
ParentRef(k, ref) ==
    IF \E n \in TreeNodes(k) : n.ray.ref = ref
    THEN (CHOOSE n \in TreeNodes(k) : n.ray.ref = ref).from
    ELSE NoRef
RECURSIVE AncestorAt(_, _, _)
\* the j-th ancestor of the ray ref of tree k, NoRef beyond the source ray
AncestorAt(k, ref, j) ==
    IF j = 0 \/ ref = NoRef THEN ref ELSE AncestorAt(k, ParentRef(k, ref), j - 1)
TracePropagated == scene # <<>> /\ call.op = "propagate" /\ result.status = "returned"

\* C18: every child ray returned by IdealSurface.propagate or
\* OpticalStop.propagate has the incident ray's generation counter plus one
\* and the identifier of the surface that produced it; so in every ray tree a
\* ray's generation is its parent's plus one, strictly increasing along any
\* chain of propagate calls, and no ray is its own ancestor.
C18_GenerationIncreases ==
    /\ TracePropagated =>
        \A i \in DOMAIN created :
            /\ created[i].parent_cnt = incident_ray.parent_cnt + 1
            /\ created[i].orig_surf = surface.id
    /\ \A k \in Trees : \A n \in TreeNodes(k) :
        /\ n.from = NoRef => n.ray.parent_cnt = 0
        /\ n.from # NoRef =>
            /\ \E m \in TreeNodes(k) : m.ray.ref = n.from
            /\ \A m \in TreeNodes(k) :
                m.ray.ref = n.from => n.ray.parent_cnt = m.ray.parent_cnt + 1
        /\ \A j \in 1..MaxRays : AncestorAt(k, n.ray.ref, j) # n.ray.ref

\* a beam splitter hit by a first-generation ray: two children of generation 2
C18_Witness ==
    /\ TracePropagated
    /\ surface.class = "IdealSurface"
    /\ incident_ray.parent_cnt = 1
    /\ Len(created) = 2
    /\ \A i \in DOMAIN created :
        created[i].parent_cnt = 2 /\ created[i].orig_surf = IdealId
    /\ \E k \in Trees : \E n \in TreeNodes(k) :
        n.ray.parent_cnt = 2 /\ AncestorAt(k, n.ray.ref, 2) = SourceRef

\* a ray of a tree that spawned no ray of the tree
Leaves(k) == {n \in TreeNodes(k) : \A m \in TreeNodes(k) : m.from # n.ray.ref}
Terminated(n) == n.fate \in {"exited", "absorbed", "cutoff"}
\* every ray of every tree is resolved: terminated, or it spawned children;
\* in a tree that was aborted, the ray whose propagate raised ends the tree
AllTerminated ==
    \A k \in Trees : \A n \in TreeNodes(k) :
        /\ n.fate # "active"
        /\ n \in Leaves(k) => (Terminated(n) \/ (status[k] = "aborted" /\ n.fate = "error"))
        /\ n \notin Leaves(k) => n.fate = "propagated"

\* C19: under a maximum depth the trace of a bundle terminates: the active
\* set eventually becomes empty and stays empty, and from then on every ray
\* is terminated (it met no surface, got no child, or is a cutoff leaf).
C19_TraceTerminates == <>[](TraceDone /\ AllTerminated)

\* two trees traced to the end, one closed by a depth cutoff between the
\* surfaces and one with a ray that left the scene
C19_Witness ==
    /\ Len(active) = 2
    /\ TraceDone /\ AllTerminated
    /\ ~zero_hit
    /\ \A k \in Trees : status[k] = "tracing"
    /\ \E n \in TreeNodes(2) : n.fate = "cutoff" /\ n.ray.parent_cnt = MaxDepth + 1
    /\ \E n \in TreeNodes(1) : n.fate = "exited"

IsMirror(s) == s.class = "IdealSurface" /\ s.reflectivity = One
TwoMirrors == scene # <<>> /\ \A i \in DOMAIN scene : IsMirror(scene[i].surf)
\* the ray tree of source ray k is complete and no ray of it left the scene
Trapped(k) == active[k] = <<>> /\ \A n \in TreeNodes(k) : n.fate # "exited"

\* C20: between two facing mirrors of reflectivity 1 a ray tree ends at the
\* maximum generation: no ray of generation above MaxDepth is ever active,
\* the child of generation MaxDepth + 1 is recorded as a cutoff leaf, no ray
\* of a larger generation exists, and a tree no ray escaped from is the chain
\* of generations 0..MaxDepth closed by that one leaf.
C20_EndsAtMaxGeneration ==
    TwoMirrors =>
        \A k \in Trees :
            /\ \A i \in DOMAIN active[k] : active[k][i].ray.parent_cnt <= MaxDepth
            /\ \A n \in TreeNodes(k) :
                /\ n.ray.parent_cnt <= MaxDepth + 1
                /\ n.ray.parent_cnt = MaxDepth + 1 <=> n.fate = "cutoff"
                /\ n.fate = "propagated" => n.ray.parent_cnt <= MaxDepth
            /\ Trapped(k) =>
                /\ Len(traced[k]) = MaxDepth + 2
                /\ \A g \in 0..(MaxDepth + 1) :
                    Cardinality({n \in TreeNodes(k) : n.ray.parent_cnt = g}) = 1
                /\ \A n \in TreeNodes(k) :
                    n.fate = (IF n.ray.parent_cnt = MaxDepth + 1 THEN "cutoff" ELSE "propagated")

\* the axial ray bounced from one mirror to the other and back until the cutoff
C20_Witness ==
    /\ TwoMirrors /\ ~zero_hit
    /\ Len(active) = 1 /\ Trapped(1)
    /\ \E n \in TreeNodes(1) : n.ray.parent_cnt = 0 /\ n.ray = AxisRay
    /\ \E n \in TreeNodes(1) :
        n.ray.parent_cnt = 1 /\ n.ray.origin = VecI(0, 0, 2) /\ n.fate = "propagated"
    /\ \E n \in TreeNodes(1) :
        n.ray.parent_cnt = 2 /\ n.ray.origin = VecI(0, 0, 0) /\ n.fate = "propagated"
    /\ \E n \in TreeNodes(1) : n.ray.parent_cnt = MaxDepth + 1 /\ n.fate = "cutoff"

\* ---------------------------------------------- IdealSurface: directions
\* the sign of the z-component of child i's direction times the incident one's
ZSide(i) == Sign(Children[i].direction[3]) * Sign(incident_ray.direction[3])
IdealReturned == IdealPropagated /\ result.status = "returned"
\* the surface lies ahead of the ray's origin
Ahead == DLe(Zero, IntersectionParameter)

\* C23: for any non-zero focal length and R = 1 the reflected child stays on
\* the side of the incoming ray: the z-component of its direction has the
\* sign opposite to that of the incident direction.
C23_ReflectedSameSide ==
    (IdealReturned /\ Ahead /\ surface.f # Zero /\ R = One /\ Len(Children) = 1) =>
        ZSide(1) = -1

\* C24: every child returned by propagate, of IdealSurface or of OpticalStop,
\* has the incident ray as its parent, never no parent.
C24_ParentLinkage ==
    ((IdealPropagated \/ StopPropagated) /\ result.status = "returned") =>
        \A i \in DOMAIN Children :
            /\ Children[i].parent # NoRef
            /\ Children[i].parent = incident_ray.ref

\* C28: IdealSurface.propagate reads the reflectivity only once the ray is
\* known to hit with a non-zero direction z: with a reflectivity outside
\* [0,1], a NO_HIT ray or a ray of zero direction z gets the empty list and
\* no exception, and only a hitting ray raises.
C28_ReflectivityAfterHit ==
    (IdealPropagated /\ ~RInRange) =>
        /\ (~Hit \/ incident_ray.direction[3] = Zero) =>
            /\ result.status = "returned"
            /\ result.exc = ""
            /\ Children = <<>>
        /\ result.status = "raised" => (Hit /\ incident_ray.direction[3] # Zero)

\* a ray parallel to the surface under a reflectivity above 1: no exception
C28_Witness ==
    /\ IdealPropagated
    /\ DLt(One, R)
    /\ incident_ray.direction[3] = Zero
    /\ result.status = "returned" /\ Children = <<>>

\* C29: for any non-zero focal length and R = 0 the transmitted child goes on
\* to the far side: the z-component of its direction has the sign of the
\* incident one; for f < 0 its direction is that of -(FP - intersection
\* point), pointing away from FP.
C29_TransmittedFarSide ==
    (IdealReturned /\ surface.f # Zero /\ R = Zero /\ Len(Children) = 1) =>
        /\ ZSide(1) = 1
        /\ DLt(surface.f, Zero) =>
            /\ Children[1].direction = normalize(VSub(result.intersection_point, C8_FP))
            /\ Children[1].direction # normalize(VSub(C8_FP, result.intersection_point))

\* a diverging surface, f = -1: the ray met at (1, 0, 0) leaves along (1, 0, 1)
C29_Witness ==
    /\ IdealReturned /\ R = Zero
    /\ surface.f = D(-1)
    /\ incident_ray.direction = VecI(0, 0, 1)
    /\ result.intersection_point = VecI(1, 0, 0)
    /\ Len(Children) = 1
    /\ Children[1].direction = VecI(1, 0, 1)

\* C30: every child returned by IdealSurface.propagate has a non-zero
\* direction without NaN, for every focal length including f = 0.
C30_DirectionDefined ==
    (IdealReturned /\ Ahead) =>
        \A i \in DOMAIN Children :
            /\ Children[i].direction # VZero
            /\ ~VHasNaN(Children[i].direction)

\* ------------------------------------------------- SimpleDMD: read-only use
\* C26: computing the normal of a SimpleDMD only reads the mirror: a
\* _calculate_normal call leaves the state and the three precomputed normals
\* as they were, and two calls with no state assignment between them give
\* the same normal.
C26_NormalReadOnly ==
    [][(IsDMD /\ call'.op = "_calculate_normal") =>
        /\ surface'._state = surface._state
        /\ surface'._normal_on = surface._normal_on
        /\ surface'._normal_off = surface._normal_off
        /\ surface'._normal_flat = surface._normal_flat
        /\ surface' = surface
        /\ call.op = "_calculate_normal" => result'.normal = result.normal]_vars

\* the normal of a mirror in state "off" was computed, and the mirror is still "off"
C26_Witness ==
    /\ IsDMD /\ call.op = "_calculate_normal" /\ call.point = VecI(1, -1, 0)
    /\ surface._state = "off"
    /\ surface._normal_off = VecI(0, 3, 4)
    /\ result.normal = surface._normal_off

\* ------------------------------------------- propagate and the incident ray
\* either surface class, called with a ray launched at it
InitSurfaces ==
    /\ surface \in Catalog
    /\ incident_ray \in TraceRays
    /\ call = NoCall
    /\ result = NoResult
    /\ created = <<>>
    /\ NoTrace

NextSurfaces == NextIdeal \/ NextStop

SpecSurfaces == InitSurfaces /\ [][NextSurfaces]_vars

\* C25: propagate of IdealSurface and of OpticalStop never changes the
\* incident ray: whatever the call returns or raises, the ray's origin,
\* direction, intensity, wavelength, medium index, label and generation
\* counter are what they were, and every returned ray is a new object made
\* by that call.
C25_IncidentUntouched ==
    [][call'.op = "propagate" =>
        /\ incident_ray'.origin = incident_ray.origin
        /\ incident_ray'.direction = incident_ray.direction
        /\ incident_ray'.intensity = incident_ray.intensity
        /\ incident_ray'.wavelength = incident_ray.wavelength
        /\ incident_ray'.n = incident_ray.n
        /\ incident_ray'.label = incident_ray.label
        /\ incident_ray'.parent_cnt = incident_ray.parent_cnt
        /\ incident_ray' = incident_ray
        /\ created' = result'.value
        /\ \A i \in DOMAIN result'.value :
            /\ result'.value[i].ref # incident_ray.ref
            /\ \A j \in DOMAIN result'.value : i # j => result'.value[i].ref # result'.value[j].ref]_vars

\* a beam splitter made two new rays and the incident ray is as it was launched
C25_Witness ==
    /\ scene = <<>>
    /\ IdealPropagated /\ result.status = "returned"
    /\ Len(created) = 2
    /\ incident_ray \in TraceRays
    /\ {created[1].ref, created[2].ref} = {incident_ray.ref + 1, incident_ray.ref + 2}

\* --------------------------------------------- tracer: selection and trees
\* C21: the tracer hands every active ray to the surface hit at the smallest
\* non-negative distance along the ray, to the first declared of the surfaces
\* hit at that distance, in that surface's local frame; a ray that hits no
\* surface is terminated as exited, without error.
C21_NearestHit ==
    [][\A k \in Trees : (active[k] # <<>> /\ traced'[k] # traced[k]) =>
        LET ray == Head(active[k]).ray
            dist == [i \in DOMAIN scene |-> HitDistance(scene[i], ray)]
            valid == {i \in DOMAIN scene :
                        /\ ~isnan(dist[i])
                        /\ (DLt(Zero, dist[i]) \/ (zero_hit /\ dist[i] = Zero))}
        IN  IF valid = {}
            THEN /\ call' = NoCall
                 /\ result'.status # "raised"
                 /\ status'[k] = "tracing"
                 /\ traced'[k] = Append(traced[k], Node(ray, Head(active[k]).from, "exited"))
            ELSE \E h \in valid :
                    /\ call'.op = "propagate"
                    /\ surface' = scene[h].surf
                    /\ incident_ray' = LocalRay(scene[h].pose, ray)
                    /\ \A j \in valid :
                        /\ DLe(dist[h], dist[j])
                        /\ dist[j] = dist[h] => h <= j]_vars

\* a stop and a mirror in one plane: the source ray went to the stop, declared first
C21_Witness ==
    /\ scene \in Coincident
    /\ scene[1].surf.class = "OpticalStop" /\ scene[1].surf.ap_shape = None
    /\ call.op = "propagate"
    /\ surface = scene[1].surf
    /\ incident_ray.parent_cnt = 0
    /\ incident_ray.origin = VecI(1, 0, 1)

\* the source ray of tree k
Source(k) == IF traced[k] # <<>> THEN traced[k][1].ray ELSE active[k][1].ray
\* the engine steps taken on tree k: its resolved rays that are not cutoff leaves
Steps(k) == Cardinality({i \in DOMAIN traced[k] : traced[k][i].fate # "cutoff"})
TreeOf(k) == [active |-> active[k], traced |-> traced[k], status |-> status[k]]
RECURSIVE AloneRun(_, _, _, _, _)
\* the ray tree with work list act and resolved rays trc after n more steps of
\* a trace that has no other tree
AloneRun(sc, zero, act, trc, n) ==
    IF n = 0 \/ act = <<>> THEN [active |-> act, traced |-> trc, status |-> "tracing"]
    ELSE CHOOSE t \in
            {IF ~out.ok THEN [active |-> act, traced |-> trc, status |-> "tracing"]
             ELSE IF out.raised
                  THEN [active |-> out.active, traced |-> out.traced, status |-> "aborted"]
                  ELSE AloneRun(sc, zero, out.active, out.traced, n - 1) :
                out \in {TreeStep(sc, zero, act, trc)}} : TRUE
\* source ray k traced alone for n steps
Alone(k, n) == AloneRun(scene, zero_hit, <<Node(Source(k), NoRef, "active")>>, <<>>, n)
\* the ray n of a tree met an IdealSurface whose reflectivity is outside [0,1]
MetBadReflectivity(n) ==
    LET h == NearestHit(scene, n.ray, zero_hit)
    IN  /\ h # 0
        /\ scene[h].surf.class = "IdealSurface"
        /\ ~(DLe(Zero, scene[h].surf.reflectivity) /\ DLe(scene[h].surf.reflectivity, One))

\* C22: a reflectivity outside [0,1] met in a ray tree aborts that tree and
\* no other: the tree is aborted exactly when one of its rays met such a
\* surface, that ray is recorded as the error and the exception is a
\* ValueError; the other trees of the bundle end as they end traced alone.
C22_AbortIsLocal ==
    /\ [](\A k \in Trees :
            /\ status[k] = "aborted" <=> (\E n \in TreeNodes(k) : n.fate = "error")
            /\ status[k] = "aborted" => active[k] = <<>>
            /\ \A i \in DOMAIN traced[k] :
                traced[k][i].fate \in {"propagated", "absorbed", "error"} =>
                    (traced[k][i].fate = "error" <=> MetBadReflectivity(traced[k][i]))
            /\ ((\E j \in Trees : j # k /\ status[j] = "aborted") /\ active[k] = <<>>) =>
                TreeOf(k) = Alone(k, MaxRays))
    /\ [][\A k \in Trees : (status[k] = "tracing" /\ status'[k] = "aborted") =>
            /\ result'.status = "raised"
            /\ result'.exc = "ValueError"
            /\ \A j \in Trees \ {k} :
                /\ active'[j] = active[j]
                /\ traced'[j] = traced[j]
                /\ status'[j] = status[j]]_vars

\* the first tree was aborted at a surface of reflectivity -1/2; the axial
\* ray's tree was traced to its end, closed by a cutoff leaf
C22_Witness ==
    /\ Len(active) = 2
    /\ scene[1].surf.reflectivity = <<-1, 2>>
    /\ status[1] = "aborted" /\ status[2] = "tracing"
    /\ active[2] = <<>>
    /\ \E n \in TreeNodes(1) : n.fate = "error"
    /\ \E n \in TreeNodes(2) : n.fate = "cutoff"
    /\ \A n \in TreeNodes(2) : n.fate # "error"

\* C27: the ray trees of the source rays of a bundle are independent: in
\* every interleaving of the per-ray work each tree is, step for step, the
\* tree of its source ray traced alone, and a step writes to one tree only.
C27_TreesIndependent ==
    /\ [](\A k \in Trees : TreeOf(k) = Alone(k, Steps(k)))
    /\ [][\E k \in Trees : \A j \in Trees \ {k} :
            /\ active'[j] = active[j]
            /\ traced'[j] = traced[j]
            /\ status'[j] = status[j]
            /\ Source(j)' = Source(j)]_vars

\* both trees of a bundle traced to the end, each with rays of its own
C27_Witness ==
    /\ Len(active) = 2
    /\ TraceDone
    /\ \A k \in Trees : status[k] = "tracing" /\ Len(traced[k]) >= 3
    /\ traced[1] # traced[2]
    /\ Source(2) = AxisRay
====
